---- MODULE Spec2Model ----
(***************************************************************************)
(* groq-chatbot: one Telegram user's session (context.user_data), the      *)
(* system-prompt ConversationHandler, the handler registration order of    *)
(* start_bot and the streaming message handler with its generator          *)
(* generate_response.                                                      *)
(*                                                                         *)
(* Texts are sequences of one-character strings, so len(), lower(),        *)
(* strip(), += and the prefix order are the real ones.  Updates are        *)
(* processed one at a time (Application.builder() is built without         *)
(* concurrent_updates and every handler is blocking), so a new update is   *)
(* dispatched only when no handler is running (pc = "idle").  The user is  *)
(* an authorized one: AuthFilter passes.                                   *)
(***************************************************************************)
EXTENDS Integers, Sequences, FiniteSets, TLC

VARIABLES
    user_data,            \* context.user_data: a dict, keys "messages", "model", "system_prompt"
    conv_state,           \* the ConversationHandler's state for this user (END: no dialog)
    update,               \* the update being handled, or the last one handled
    handler,              \* the callback start_bot's handlers chose for it
    reply,                \* the last notice sent (reply_text / edit_message_text)
    pc,                   \* position of message_handler
    gen_at,               \* generate_response: suspended at "loop" (line 31) or "final" (line 33), "returned"
    response_queue,       \* generate_response's pending buffer
    full_output_message,  \* message_handler's accumulator
    snapshots,            \* the texts handed to format_message / edit_text, in order
    yields,               \* the values generate_response has yielded, in order
    fragments,            \* the delta.content values the completion stream produced, in order
    requests              \* the chat.completions.create calls made by this handler run

vars == <<user_data, conv_state, update, handler, reply, pc, gen_at, response_queue,
          full_output_message, snapshots, yields, fragments, requests>>

locals == <<gen_at, response_queue, full_output_message, snapshots, yields, fragments, requests>>

(***************************************************************************)
(* Bounds of the model.                                                    *)
(***************************************************************************)
MaxFrags == 3
MaxPending == 0

(***************************************************************************)
(* Program constants.                                                      *)
(***************************************************************************)
SYSTEM_PROMPT_SP == 1
CANCEL_SP == 2
END == -1
Threshold == 100

DefaultModel == <<"llama3-8b-8192">>

models == {<<"llama3-8b-8192">>, <<"llama3-70b-8192">>, <<"mixtral-8x7b-32768">>, <<"gemma-7b-it">>}

ChangeModelPrefix == "change_model_"

(***************************************************************************)
(* Texts.                                                                  *)
(***************************************************************************)
Rep(c, n) == [i \in 1..n |-> c]

EmptyText == <<>>
BlankText == <<" ">>
HiText == <<"h", "i">>
ClearText == <<" ", "C", "l", "e", "a", "R", " ">>
clear == <<"c", "l", "e", "a", "r">>

TextChoices == {EmptyText, BlankText, HiText, ClearText}

\* delta.content of one stream event: nothing, 50 characters (two of them fill
\* the buffer to the threshold exactly), 101 characters (over it at once).
FragmentChoices == {EmptyText, Rep("a", 50), Rep("b", 101)}

IsPrefix(s, t) == Len(s) <= Len(t) /\ SubSeq(t, 1, Len(s)) = s

RECURSIVE Concat(_)
Concat(ss) == IF ss = <<>> THEN <<>> ELSE Head(ss) \o Concat(Tail(ss))

LowerChar(c) ==
    CASE c = "C" -> "c"
      [] c = "L" -> "l"
      [] c = "E" -> "e"
      [] c = "A" -> "a"
      [] c = "R" -> "r"
      [] c = "H" -> "h"
      [] c = "I" -> "i"
      [] OTHER -> c

lower(s) == [i \in 1..Len(s) |-> LowerChar(s[i])]

IsSpace(c) == c \in {" ", "\n", "\t"}

RECURSIVE lstrip(_)
lstrip(s) == IF s # <<>> /\ IsSpace(Head(s)) THEN lstrip(Tail(s)) ELSE s

RECURSIVE rstrip(_)
rstrip(s) == IF s # <<>> /\ IsSpace(s[Len(s)]) THEN rstrip(SubSeq(s, 1, Len(s) - 1)) ELSE s

strip(s) == rstrip(lstrip(s))

\* str.replace(old, ""), on a string given as its tokens
RECURSIVE replace(_, _)
replace(data, old) ==
    IF data = <<>> THEN <<>>
    ELSE IF Head(data) = old THEN replace(Tail(data), old)
    ELSE <<Head(data)>> \o replace(Tail(data), old)

(***************************************************************************)
(* context.user_data, a dict.                                              *)
(***************************************************************************)
Get(d, k, default) == IF k \in DOMAIN d THEN d[k] ELSE default

Put(d, k, v) == [x \in (DOMAIN d) \cup {k} |-> IF x = k THEN v ELSE d[x]]

Pop(d, k) == [x \in (DOMAIN d) \ {k} |-> d[x]]

EmptyDict == [x \in {} |-> <<>>]

Turn(r, c) == [role |-> r, content |-> c]

history == Get(user_data, "messages", <<>>)

\* The turns of h after the seeded system prompt.
Pending(h) == IF h # <<>> /\ h[1].role = "system" THEN Len(h) - 1 ELSE Len(h)

(***************************************************************************)
(* Updates.                                                                *)
(***************************************************************************)
Command(name) == [kind |-> "command", data |-> <<name>>]
Text(t) == [kind |-> "text", data |-> t]
Button(d) == [kind |-> "button", data |-> d]
NoUpdate == [kind |-> "none", data |-> <<>>]

CommandNames == {"start", "help", "new", "model", "info", "system_prompt", "cancel"}

ButtonChoices == {<<ChangeModelPrefix>> \o m : m \in models \cup {<<"foo">>}}

Updates == {Command(n) : n \in CommandNames}
             \cup {Text(t) : t \in TextChoices}
             \cup {Button(d) : d \in ButtonChoices}

IsCommand(u, name) == u.kind = "command" /\ u.data = <<name>>

\* groq_chat/filters.py: a text message that is not a command
MessageFilter(u) == u.kind = "text"

\* CallbackQueryHandler(pattern="^change_model_")
MatchesPattern(u) == u.kind = "button" /\ u.data # <<>> /\ Head(u.data) = ChangeModelPrefix

\* The ConversationHandler with allow_reentry: an entry point matches in every state.
ConversationCallbackReentry(u, st) ==
    IF IsCommand(u, "system_prompt") THEN "start_system_prompt"
    ELSE IF st = END THEN "none"
    ELSE IF st = SYSTEM_PROMPT_SP /\ MessageFilter(u) THEN "get_system_prompt"
    ELSE IF st = CANCEL_SP /\ IsCommand(u, "cancel") THEN "cancelled_system_prompt"
    ELSE IF IsCommand(u, "cancel") THEN "cancelled_system_prompt"
    ELSE "none"

\* ConversationHandler(entry_points, states, fallbacks): the callback it
\* chooses in state st, "none" when it does not take the update.
ConversationCallback(u, st) ==
    IF st = END
      THEN IF IsCommand(u, "system_prompt") THEN "start_system_prompt" ELSE "none"
    ELSE IF st = SYSTEM_PROMPT_SP /\ MessageFilter(u) THEN "get_system_prompt"
    ELSE IF st = CANCEL_SP /\ IsCommand(u, "cancel") THEN "cancelled_system_prompt"
    ELSE IF IsCommand(u, "cancel") THEN "cancelled_system_prompt"
    ELSE "none"

\* The MessageHandler is registered before the ConversationHandler.
DispatchMessageFirst(u, st) ==
    IF IsCommand(u, "start") THEN "start"
    ELSE IF IsCommand(u, "help") THEN "help_command"
    ELSE IF IsCommand(u, "new") THEN "new_command_handler"
    ELSE IF IsCommand(u, "model") THEN "model_command_handler"
    ELSE IF IsCommand(u, "info") THEN "info_command_handler"
    ELSE IF MessageFilter(u) THEN "message_handler"
    ELSE IF ConversationCallback(u, st) # "none" THEN ConversationCallback(u, st)
    ELSE IF MatchesPattern(u) THEN "change_model_callback_handler"
    ELSE "none"

\* The ConversationHandler is registered first and any command is its fallback.
DispatchFallbackAnyCommand(u, st) ==
    IF st # END /\ u.kind = "command" THEN "cancelled_system_prompt"
    ELSE IF IsCommand(u, "start") THEN "start"
    ELSE IF IsCommand(u, "help") THEN "help_command"
    ELSE IF IsCommand(u, "new") THEN "new_command_handler"
    ELSE IF IsCommand(u, "model") THEN "model_command_handler"
    ELSE IF IsCommand(u, "info") THEN "info_command_handler"
    ELSE IF ConversationCallback(u, st) # "none" THEN ConversationCallback(u, st)
    ELSE IF MessageFilter(u) THEN "message_handler"
    ELSE IF MatchesPattern(u) THEN "change_model_callback_handler"
    ELSE "none"

\* start_bot's handlers, all in one group: the first that matches handles the update.
Dispatch(u, st) ==
    IF IsCommand(u, "start") THEN "start"
    ELSE IF IsCommand(u, "help") THEN "help_command"
    ELSE IF IsCommand(u, "new") THEN "new_command_handler"
    ELSE IF IsCommand(u, "model") THEN "model_command_handler"
    ELSE IF IsCommand(u, "info") THEN "info_command_handler"
    ELSE IF ConversationCallback(u, st) # "none" THEN ConversationCallback(u, st)
    ELSE IF MessageFilter(u) THEN "message_handler"
    ELSE IF MatchesPattern(u) THEN "change_model_callback_handler"
    ELSE "none"

Notice(text, arg) == [text |-> text, arg |-> arg]

Init ==
    /\ user_data = EmptyDict
    /\ conv_state = END
    /\ update = NoUpdate
    /\ handler = "none"
    /\ reply = Notice("none", <<>>)
    /\ pc = "idle"
    /\ gen_at = "none"
    /\ response_queue = <<>>
    /\ full_output_message = <<>>
    /\ snapshots = <<>>
    /\ yields = <<>>
    /\ fragments = <<>>
    /\ requests = <<>>

\* The application is built with concurrent_updates: an update is handled
\* while the handler of an earlier one is suspended.
HandlesConcurrently(u, h) ==
    /\ Dispatch(u, conv_state) = h
    /\ update' = u
    /\ handler' = h

\* An update u reaches the callback named h. The application handles one
\* update at a time: the next is taken when the handler of this one returned.
Handles(u, h) ==
    /\ pc = "idle"
    /\ Dispatch(u, conv_state) = h
    /\ update' = u
    /\ handler' = h

NoLocals ==
    /\ gen_at' = "none"
    /\ response_queue' = <<>>
    /\ full_output_message' = <<>>
    /\ snapshots' = <<>>
    /\ yields' = <<>>
    /\ fragments' = <<>>
    /\ requests' = <<>>

\* new_chat always leaves an empty list.
new_chat_unseeded(d) == Put(d, "messages", <<>>)

new_chat(d) ==
    IF "system_prompt" \in DOMAIN d
      THEN Put(d, "messages", <<Turn("system", d["system_prompt"])>>)
      ELSE Put(d, "messages", <<>>)

start(u) ==
    /\ Handles(u, "start")
    /\ reply' = Notice("Hi! Start sending messages with me to generate a response.", <<>>)
    /\ UNCHANGED <<user_data, conv_state, pc, locals>>

help_command(u) ==
    /\ Handles(u, "help_command")
    /\ reply' = Notice("Basic commands: ...", <<>>)
    /\ UNCHANGED <<user_data, conv_state, pc, locals>>

new_command_handler(u) ==
    /\ Handles(u, "new_command_handler")
    /\ user_data' = new_chat(user_data)
    /\ reply' = Notice("New chat session started.", <<>>)
    /\ UNCHANGED <<conv_state, pc, locals>>

model_command_handler(u) ==
    /\ Handles(u, "model_command_handler")
    /\ reply' = Notice("Select a model:", <<>>)
    /\ UNCHANGED <<user_data, conv_state, pc, locals>>

\* model = query.data.replace("change_model_", "")
SelectedModel(data) == replace(data, ChangeModelPrefix)

\* The callback handler starts a new chat after it has stored the model.
change_model_callback_handler_resets(u) ==
    /\ Handles(u, "change_model_callback_handler")
    /\ user_data' = new_chat(Put(user_data, "model", SelectedModel(u.data)))
    /\ reply' = Notice("Model changed to", SelectedModel(u.data))
    /\ UNCHANGED <<conv_state, pc, locals>>

change_model_callback_handler(u) ==
    /\ Handles(u, "change_model_callback_handler")
    /\ user_data' = Put(user_data, "model", SelectedModel(u.data))
    /\ reply' = Notice("Model changed to", SelectedModel(u.data))
    /\ UNCHANGED <<conv_state, pc, locals>>

start_system_prompt(u) ==
    /\ Handles(u, "start_system_prompt")
    /\ reply' = Notice("Send me a system prompt. If you want to clear the system prompt, send clear now.", <<>>)
    /\ conv_state' = SYSTEM_PROMPT_SP
    /\ UNCHANGED <<user_data, pc, locals>>

\* The cancel handler drops the system prompt and starts a new chat.
cancelled_system_prompt_clears(u) ==
    /\ Handles(u, "cancelled_system_prompt")
    /\ reply' = Notice("System prompt change cancelled.", <<>>)
    /\ conv_state' = END
    /\ user_data' = new_chat(Pop(user_data, "system_prompt"))
    /\ UNCHANGED <<pc, locals>>

cancelled_system_prompt(u) ==
    /\ Handles(u, "cancelled_system_prompt")
    /\ reply' = Notice("System prompt change cancelled.", <<>>)
    /\ conv_state' = END
    /\ UNCHANGED <<user_data, pc, locals>>

\* The text is compared without being stripped.
IsClearNoStrip(t) == lower(t) = clear

\* handlers.py 116: system_prompt.lower().strip() == "clear"
IsClear(t) == strip(lower(t)) = clear

\* get_system_prompt's effect on user_data, new_chat included
SetSystemPrompt(d, t) ==
    IF IsClear(t)
      THEN new_chat(Pop(d, "system_prompt"))
      ELSE new_chat(Put(d, "system_prompt", t))

get_system_prompt(u) ==
    /\ Handles(u, "get_system_prompt")
    /\ user_data' = SetSystemPrompt(user_data, u.data)
    /\ reply' = IF IsClear(u.data)
                  THEN Notice("System prompt cleared.", <<>>)
                  ELSE Notice("System prompt changed.", <<>>)
    /\ conv_state' = END
    /\ UNCHANGED <<pc, locals>>

\* The info handler stores the default model, as message_handler does.
info_command_handler_stores(u) ==
    /\ Handles(u, "info_command_handler")
    /\ reply' = Notice("Conversation Info: Model", Get(user_data, "model", DefaultModel))
    /\ user_data' = Put(user_data, "model", Get(user_data, "model", DefaultModel))
    /\ UNCHANGED <<conv_state, pc, locals>>

info_command_handler(u) ==
    /\ Handles(u, "info_command_handler")
    /\ reply' = Notice("Conversation Info: Model", Get(user_data, "model", DefaultModel))
    /\ UNCHANGED <<user_data, conv_state, pc, locals>>

\* No handler of start_bot matches: the update is dropped.
unhandled(u) ==
    /\ Handles(u, "none")
    /\ UNCHANGED <<user_data, conv_state, reply, pc, locals>>

(***************************************************************************)
(* message_handler and generate_response.                                  *)
(***************************************************************************)
\* handlers.py 130-134: the defaults stored before anything else
WithDefaults(d) ==
    LET d1 == IF "model" \notin DOMAIN d THEN Put(d, "model", DefaultModel) ELSE d
    IN  IF "messages" \notin DOMAIN d1 THEN Put(d1, "messages", <<>>) ELSE d1

\* A text of white space only counts as no message.
NotMessageStripped(t) == strip(t) = <<>>

\* handlers.py 139: if not message
NotMessage(t) == t = <<>>

\* groq_chat.py 16-21: the user turn appended before the completion call
AppendUser(d, t) == Put(d, "messages", Get(d, "messages", <<>>) \o <<Turn("user", t)>>)

\* handlers.py 153: the role message_handler gives its reply turn
ReplyRole == "system"

\* handlers.py 151-156: the reply turn stored once the generator has ended
AppendReply(d, t) == Put(d, "messages", Get(d, "messages", <<>>) \o <<Turn(ReplyRole, t)>>)

\* The completion is always asked of the default model.
RequestDefaultModel(d) == [messages |-> Get(d, "messages", <<>>), model |-> DefaultModel]

\* groq_chat.py 23-27: the arguments of chat.completions.create
Request(d) == [messages |-> Get(d, "messages", <<>>), model |-> Get(d, "model", DefaultModel)]

message_handler(u) ==
    /\ Handles(u, "message_handler")
    /\ reply' = Notice("Generating response...", <<>>)
    /\ IF NotMessage(u.data)
         THEN /\ user_data' = WithDefaults(user_data)
              /\ UNCHANGED <<conv_state, pc, locals>>
         ELSE /\ Pending(history) <= MaxPending
              /\ user_data' = AppendUser(WithDefaults(user_data), u.data)
              /\ requests' = <<Request(user_data')>>
              /\ pc' = "running"
              /\ UNCHANGED <<conv_state, gen_at, response_queue, full_output_message,
                             snapshots, yields, fragments>>

\* groq_chat.py 28-29
Queued(q, f) == IF f # <<>> THEN q \o f ELSE q

\* The buffer is yielded as soon as it reaches the threshold.
OverThresholdOrEqual(q) == Len(q) >= Threshold

\* groq_chat.py 30
OverThreshold(q) == Len(q) > Threshold

\* One event of the completion stream is consumed (groq_chat.py 23, 28-31).
NextFragment ==
    /\ pc = "running"
    /\ Len(fragments) < MaxFrags
    /\ \E f \in FragmentChoices :
         /\ fragments' = Append(fragments, f)
         /\ response_queue' = Queued(response_queue, f)
         /\ IF OverThreshold(response_queue')
              THEN /\ yields' = Append(yields, response_queue')
                   /\ gen_at' = "loop"
                   /\ pc' = "yielded"
              ELSE UNCHANGED <<yields, gen_at, pc>>
    /\ UNCHANGED <<user_data, conv_state, update, handler, reply, full_output_message,
                   snapshots, requests>>

\* The completion stream is exhausted: the yield after the loop (groq_chat.py 33).
StreamEnd ==
    /\ pc = "running"
    /\ yields' = Append(yields, response_queue)
    /\ gen_at' = "final"
    /\ pc' = "yielded"
    /\ UNCHANGED <<user_data, conv_state, update, handler, reply, response_queue,
                   full_output_message, snapshots, fragments, requests>>

\* The failure is caught and the text received so far is stored as the reply.
GenerationFailureKeepsPartial ==
    /\ pc = "running"
    /\ pc' = "raised"
    /\ user_data' = IF full_output_message \o response_queue # <<>>
                      THEN AppendReply(user_data, full_output_message \o response_queue)
                      ELSE user_data
    /\ UNCHANGED <<conv_state, update, handler, reply, locals>>

\* chat.completions.create, or the iteration of its stream, raises.
GenerationFailure ==
    /\ pc = "running"
    /\ pc' = "raised"
    /\ UNCHANGED <<user_data, conv_state, update, handler, reply, locals>>

\* Every yielded value is delivered, the empty one too.
DeliversAlways(message) == TRUE

\* handlers.py 145: if message
Delivers(message) == message # <<>>

\* The edit_text call is started and not awaited.
HandleYieldNoAwait ==
    /\ pc = "yielded"
    /\ LET message == yields[Len(yields)]
       IN  IF Delivers(message)
             THEN /\ full_output_message' = full_output_message \o message
                  /\ snapshots' = Append(snapshots, full_output_message')
             ELSE UNCHANGED <<full_output_message, snapshots>>
    /\ pc' = "resuming"
    /\ UNCHANGED <<user_data, conv_state, update, handler, reply, gen_at, response_queue,
                   yields, fragments, requests>>

\* handlers.py 144-149: the yielded value reaches the loop body; a non-empty one
\* is added to full_output_message and the edit_text call starts.
HandleYield ==
    /\ pc = "yielded"
    /\ LET message == yields[Len(yields)]
       IN  IF Delivers(message)
             THEN /\ full_output_message' = full_output_message \o message
                  /\ snapshots' = Append(snapshots, full_output_message')
                  /\ pc' = "delivering"
             ELSE /\ pc' = "resuming"
                  /\ UNCHANGED <<full_output_message, snapshots>>
    /\ UNCHANGED <<user_data, conv_state, update, handler, reply, gen_at, response_queue,
                   yields, fragments, requests>>

\* await init_msg.edit_text(...) returns.
EditReturns ==
    /\ pc = "delivering"
    /\ pc' = "resuming"
    /\ UNCHANGED <<user_data, conv_state, update, handler, reply, locals>>

\* The buffer is kept after the yield.
AfterYieldKept(q) == q

\* groq_chat.py 32: response_queue = ""
AfterYield(q) == <<>>

\* The for loop asks for the next value: the generator goes on after line 31.
ResumeLoop ==
    /\ pc = "resuming"
    /\ gen_at = "loop"
    /\ response_queue' = AfterYield(response_queue)
    /\ gen_at' = "none"
    /\ pc' = "running"
    /\ UNCHANGED <<user_data, conv_state, update, handler, reply, full_output_message,
                   snapshots, yields, fragments, requests>>

\* The generator returns after line 33 and the loop ends (handlers.py 151-156).
Finish ==
    /\ pc = "resuming"
    /\ gen_at = "final"
    /\ user_data' = AppendReply(user_data, full_output_message)
    /\ gen_at' = "returned"
    /\ pc' = "done"
    /\ UNCHANGED <<conv_state, update, handler, reply, response_queue, full_output_message,
                   snapshots, yields, fragments, requests>>

\* message_handler returns.
Return ==
    /\ pc = "done"
    /\ pc' = "idle"
    /\ NoLocals
    /\ UNCHANGED <<user_data, conv_state, update, handler, reply>>

\* handlers.py 191: update.message is set for a text or a command, and is
\* None for a callback query.
HasMessage(u) == u.kind \in {"text", "command"}

\* The exception leaves the handler and the application calls error_handler,
\* which replies to update.message; without one the attribute access raises.
error_handler ==
    /\ pc = "raised"
    /\ handler' = "error_handler"
    /\ IF HasMessage(update)
         THEN /\ reply' = Notice("An exception was raised while handling an update", <<>>)
              /\ pc' = "idle"
         ELSE /\ reply' = reply
              /\ pc' = "error_handler_raised"
    /\ NoLocals
    /\ UNCHANGED <<user_data, conv_state, update>>

\* query.edit_message_text raises (a network error, a bad request) after
\* change_model_callback_handler has stored the model.
change_model_edit_fails(u) ==
    /\ Handles(u, "change_model_callback_handler")
    /\ user_data' = Put(user_data, "model", SelectedModel(u.data))
    /\ pc' = "raised"
    /\ UNCHANGED <<conv_state, reply, locals>>

\* The application logs the exception error_handler raised and goes on.
error_handler_exception_logged ==
    /\ pc = "error_handler_raised"
    /\ pc' = "idle"
    /\ UNCHANGED <<user_data, conv_state, update, handler, reply, locals>>

Next ==
    \/ \E u \in Updates :
         \/ start(u)
         \/ help_command(u)
         \/ new_command_handler(u)
         \/ model_command_handler(u)
         \/ change_model_callback_handler(u)
         \/ start_system_prompt(u)
         \/ cancelled_system_prompt(u)
         \/ get_system_prompt(u)
         \/ info_command_handler(u)
         \/ message_handler(u)
         \/ unhandled(u)
    \/ NextFragment
    \/ StreamEnd
    \/ GenerationFailure
    \/ HandleYield
    \/ EditReturns
    \/ ResumeLoop
    \/ Finish
    \/ Return
    \/ error_handler

Spec == Init /\ [][Next]_vars

\* The same, with the transport failing under change_model_callback_handler.
NextWithFailures ==
    \/ Next
    \/ \E u \in Updates : change_model_edit_fails(u)
    \/ error_handler_exception_logged

SpecWithFailures == Init /\ [][NextWithFailures]_vars

(***************************************************************************)
(* Claims.                                                                 *)
(***************************************************************************)
Last(s) == s[Len(s)]

RECURSIVE Emissions(_, _)
Emissions(fs, q) ==
    IF fs = <<>> THEN 0
    ELSE IF Len(q \o Head(fs)) > 100 THEN 1 + Emissions(Tail(fs), <<>>)
    ELSE Emissions(Tail(fs), q \o Head(fs))

\* C3 as stated: once the stream has completed, every yield, the final one
\* included, has given a delivered snapshot, and the last snapshot is the whole
\* text.
C3_FinalSnapshotAlwaysEmitted ==
    pc = "done" =>
        /\ Len(snapshots) = Len(yields)
        /\ snapshots # <<>>
        /\ Last(snapshots) = Concat(fragments)

\* C3 as amended: after the stream ends generate_response yields exactly once
\* more, the pending buffer (so that the yields together are the whole text);
\* message_handler delivers a final snapshot, the whole text, only when that
\* last value is not empty: no snapshot is repeated and no empty one is sent.
C3_FinalYieldDeliveredIfNonEmpty ==
    gen_at \in {"final", "returned"} =>
        /\ Len(yields) = Emissions(fragments, <<>>) + 1
        /\ Concat(yields) = Concat(fragments)
        /\ \A i \in 1..(Len(yields) - 1) : yields[i] # <<>>
        /\ pc = "done" =>
             /\ Len(snapshots) = Len(yields) - (IF Last(yields) = <<>> THEN 1 ELSE 0)
             /\ Last(yields) # <<>> => Last(snapshots) = Concat(fragments)

\* The stream ended right after a threshold emission: the final yield is empty
\* and the one snapshot delivered is not repeated.
C3_Witness ==
    /\ pc = "done"
    /\ Len(yields) = 2
    /\ Last(yields) = <<>>
    /\ Len(snapshots) = 1

\* C2: when a non-empty text has been handled and the stream has completed,
\* history ends with {user, user_text} and then {assistant, full_text}, full_text
\* being the concatenation of all fragments.
C2_HistoryEndsUserThenAssistant ==
    pc = "done" =>
        /\ Len(history) >= 2
        /\ history[Len(history) - 1] = Turn("user", update.data)
        /\ history[Len(history)] = Turn("assistant", Concat(fragments))

C5_BlankTextIsNoOp ==
    [][(pc = "idle" /\ handler' = "message_handler" /\ update'.kind = "text"
           /\ strip(update'.data) = <<>>) =>
         /\ history' = history
         /\ requests' = <<>>
         /\ pc' = "idle"]_vars

\* C5 as amended: the empty text makes no completion request and leaves the
\* turns of history and the system prompt unchanged (the placeholder is sent and
\* the default model stored); a text of white space only is handled as any
\* other text: it is appended as a user turn and one completion request is made.
\* After new_chat the empty text leaves history [] or the system-prompt entry.
C5_OnlyEmptyTextIsNoOp ==
    [][(pc = "idle" /\ handler' = "message_handler" /\ update'.kind = "text"
           /\ strip(update'.data) = <<>>) =>
         /\ reply' = Notice("Generating response...", <<>>)
         /\ user_data'["model"] = Get(user_data, "model", DefaultModel)
         /\ ("system_prompt" \in DOMAIN user_data') = ("system_prompt" \in DOMAIN user_data)
         /\ IF update'.data = <<>>
              THEN /\ history' = history
                   /\ requests' = <<>>
                   /\ pc' = "idle"
                   /\ handler = "new_command_handler" =>
                        \/ history' = <<>>
                        \/ history' = <<Turn("system", user_data["system_prompt"])>>
              ELSE /\ history' = history \o <<Turn("user", update'.data)>>
                   /\ requests' = <<Request(user_data')>>
                   /\ pc' = "running"]_vars

\* The empty text was handled in a chat seeded with the system prompt.
C5_Witness ==
    /\ pc = "idle"
    /\ handler = "message_handler"
    /\ update = Text(EmptyText)
    /\ "system_prompt" \in DOMAIN user_data
    /\ history = <<Turn("system", user_data["system_prompt"])>>

\* C6: a button payload naming a model outside the allow-list leaves the
\* session unchanged, and the model of the session, when set, is in the
\* allow-list.
C6_UnknownModelRejected ==
    [][(pc = "idle" /\ update'.kind = "button") =>
         /\ SelectedModel(update'.data) \notin models => user_data' = user_data
         /\ "model" \in DOMAIN user_data' => user_data'["model"] \in models]_vars

\* The texts of TextChoices that read "clear" once lower-cased and trimmed.
ClearSentinels == {clear, ClearText}

\* C7: in AwaitingPrompt a text t goes to the dialog; if t reads "clear" the
\* system prompt is removed and history becomes [], otherwise the system prompt
\* becomes t as it is and history [{system, t}]; the model is untouched and the
\* dialog returns to Idle.
C7_PromptTextSetsOrClears ==
    [][(pc = "idle" /\ conv_state = SYSTEM_PROMPT_SP /\ update'.kind = "text") =>
         /\ conv_state' = END
         /\ IF update'.data \in ClearSentinels
              THEN /\ "system_prompt" \notin DOMAIN user_data'
                   /\ history' = <<>>
              ELSE /\ "system_prompt" \in DOMAIN user_data'
                   /\ user_data'["system_prompt"] = update'.data
                   /\ history' = <<Turn("system", update'.data)>>
         /\ ("model" \in DOMAIN user_data') = ("model" \in DOMAIN user_data)
         /\ Get(user_data', "model", DefaultModel) = Get(user_data, "model", DefaultModel)]_vars

\* The dialog has stored a prompt of white space as it was sent.
C7_Witness ==
    /\ handler = "get_system_prompt"
    /\ conv_state = END
    /\ update = Text(BlankText)
    /\ history = <<Turn("system", BlankText)>>
    /\ user_data["system_prompt"] = BlankText

\* C8: message_handler is never running while the dialog is in AwaitingPrompt,
\* and a text arriving in AwaitingPrompt is handled by get_system_prompt alone:
\* no handler run starts, no completion request is made and history holds no
\* user turn afterwards.
C8_DialogConsumesText ==
    [][/\ conv_state' = SYSTEM_PROMPT_SP => pc' = "idle"
       /\ (pc = "idle" /\ conv_state = SYSTEM_PROMPT_SP /\ update'.kind = "text") =>
            /\ handler' = "get_system_prompt"
            /\ pc' = "idle"
            /\ requests' = <<>>
            /\ \A i \in 1..Len(history') : history'[i].role # "user"]_vars

\* A text sent in AwaitingPrompt was taken by the dialog and became the prompt.
C8_Witness ==
    /\ handler = "get_system_prompt"
    /\ update = Text(HiText)
    /\ conv_state = END
    /\ pc = "idle"
    /\ history = <<Turn("system", HiText)>>

OtherCommands == {"start", "help", "new", "model", "info"}

\* C9 as stated: in AwaitingPrompt a command other than cancel returns the
\* dialog to Idle and leaves the session unchanged.
C9_OtherCommandCancels ==
    [][(pc = "idle" /\ conv_state = SYSTEM_PROMPT_SP /\ update'.kind = "command"
           /\ update'.data[1] \in OtherCommands) =>
         /\ conv_state' = END
         /\ user_data' = user_data]_vars

OrdinaryHandler(name) ==
    CASE name = "start" -> "start"
      [] name = "help" -> "help_command"
      [] name = "new" -> "new_command_handler"
      [] name = "model" -> "model_command_handler"
      [] name = "info" -> "info_command_handler"

\* C9 as amended: in AwaitingPrompt the commands /start, /help, /new, /model
\* and /info are handled by their ordinary handlers as in Idle (/new resets
\* history to [] or the system-prompt entry, the others leave the session
\* unchanged) and the dialog stays in AwaitingPrompt; only a text or the cancel
\* command returns it to Idle.
C9_OtherCommandKeepsDialog ==
    [][/\ (pc = "idle" /\ conv_state = SYSTEM_PROMPT_SP /\ update'.kind = "command"
             /\ update'.data[1] \in OtherCommands) =>
            /\ conv_state' = SYSTEM_PROMPT_SP
            /\ handler' = OrdinaryHandler(update'.data[1])
            /\ IF update' = Command("new")
                 THEN /\ history' = IF "system_prompt" \in DOMAIN user_data
                                      THEN <<Turn("system", user_data["system_prompt"])>>
                                      ELSE <<>>
                      /\ Pop(user_data', "messages") = Pop(user_data, "messages")
                 ELSE user_data' = user_data
       /\ (conv_state = SYSTEM_PROMPT_SP /\ conv_state' # SYSTEM_PROMPT_SP) =>
            /\ conv_state' = END
            /\ update'.kind = "text" \/ update' = Command("cancel")]_vars

\* /new was handled while the dialog was waiting, and the dialog still waits.
C9_Witness ==
    /\ conv_state = SYSTEM_PROMPT_SP
    /\ handler = "new_command_handler"
    /\ update = Command("new")

PromptNotice ==
    Notice("Send me a system prompt. If you want to clear the system prompt, send clear now.", <<>>)

\* C11 as the specification words it: the system_prompt command sent in
\* AwaitingPrompt is answered by the prompt again.
C11_ReentryResendsPrompt ==
    [][(pc = "idle" /\ conv_state = SYSTEM_PROMPT_SP /\ update' = Command("system_prompt")) =>
            /\ handler' = "start_system_prompt"
            /\ reply' = PromptNotice
            /\ conv_state' = SYSTEM_PROMPT_SP
            /\ user_data' = user_data]_vars

\* C11: at most one dialog is open per conversation. The system_prompt command
\* sent in AwaitingPrompt matches no handler: nothing is sent, the state stays
\* AwaitingPrompt and the session is unchanged; no second dialog is stacked, as
\* one text or one cancel command then ends the dialog.
C11_ReentryIsIgnored ==
    [][/\ conv_state' \in {END, SYSTEM_PROMPT_SP}
       /\ (pc = "idle" /\ conv_state = SYSTEM_PROMPT_SP /\ update' = Command("system_prompt")) =>
            /\ handler' = "none"
            /\ reply' = reply
            /\ conv_state' = SYSTEM_PROMPT_SP
            /\ user_data' = user_data
            /\ pc' = "idle"
       /\ (pc = "idle" /\ conv_state = SYSTEM_PROMPT_SP
             /\ (update'.kind = "text" \/ update' = Command("cancel"))) =>
            conv_state' = END]_vars

\* The command was sent again inside the dialog, after another command had
\* been answered there.
C11_Witness ==
    /\ conv_state = SYSTEM_PROMPT_SP
    /\ update = Command("system_prompt")
    /\ handler = "none"
    /\ reply # PromptNotice

\* C12: the new command sets the history to the one system entry carrying
\* system_prompt when one is set and to the empty list otherwise, whatever the
\* history held, and changes no other key of the session; get_system_prompt
\* resets the history the same way from the prompt it has just set or cleared.
C12_NewChatResetsHistory ==
    [][/\ (pc = "idle" /\ update' = Command("new")) =>
            /\ handler' = "new_command_handler"
            /\ history' = IF "system_prompt" \in DOMAIN user_data
                             THEN <<Turn("system", user_data["system_prompt"])>>
                             ELSE <<>>
            /\ Pop(user_data', "messages") = Pop(user_data, "messages")
       /\ (pc = "idle" /\ handler' = "get_system_prompt") =>
            /\ history' = IF update'.data \in ClearSentinels
                             THEN <<>>
                             ELSE <<Turn("system", update'.data)>>
            /\ Get(user_data', "model", <<>>) = Get(user_data, "model", <<>>)]_vars

\* A new chat was started in a session that has a prompt and a model.
C12_Witness ==
    /\ handler = "new_command_handler"
    /\ update = Command("new")
    /\ "model" \in DOMAIN user_data
    /\ "system_prompt" \in DOMAIN user_data
    /\ history = <<Turn("system", user_data["system_prompt"])>>

\* C13 as the specification words it: a history that is not empty starts with
\* a system entry exactly when system_prompt is set, and no entry after the
\* first has the role system.
C13_SystemEntryOnlySeeded ==
    history # <<>> =>
        /\ (history[1].role = "system") <=> ("system_prompt" \in DOMAIN user_data)
        /\ \A i \in 2..Len(history) : history[i].role # "system"

\* C14: the handlers of one conversation never interleave. While message_handler
\* is running, suspended at a delivery or not, no other update is taken and the
\* session changes only by its own last step; the reply turn is appended to the
\* very history that was sent with the request, under the model sent with it, so
\* a new chat or a model selection takes effect wholly before or wholly after.
C14_HandlersDoNotInterleave ==
    [][/\ pc # "idle" =>
            /\ update' = update
            /\ conv_state' = conv_state
            /\ (user_data' = user_data \/ (pc = "resuming" /\ pc' = "done"))
       /\ pc' = "done" =>
            /\ Len(history') = Len(requests'[1].messages) + 1
            /\ SubSeq(history', 1, Len(history') - 1) = requests'[1].messages
            /\ Last(history').content = full_output_message'
            /\ user_data'["model"] = requests'[1].model]_vars

\* A generation that was suspended at two deliveries has appended its reply.
C14_Witness ==
    /\ pc = "done"
    /\ Len(snapshots) = 2
    /\ Len(history) = Len(requests[1].messages) + 1
    /\ Last(history).content = Concat(fragments)

ExceptionNotice == Notice("An exception was raised while handling an update", <<>>)

\* C15 as the specification words it: a failure raised while an update is
\* handled is answered with the failure notice, and error_handler returns.
C15_FailureAnswered ==
    [][pc = "raised" => (pc' = "idle" /\ reply' = ExceptionNotice)]_vars

\* C16: the info command reports the model of the session, or llama3-8b-8192
\* when none is stored, and leaves the session and the dialog as they were; the
\* fallback it reports is not stored.
C16_InfoIsPureRead ==
    [][(pc = "idle" /\ update' = Command("info")) =>
            /\ handler' = "info_command_handler"
            /\ reply' = Notice("Conversation Info: Model",
                               IF "model" \in DOMAIN user_data
                                 THEN user_data["model"]
                                 ELSE <<"llama3-8b-8192">>)
            /\ user_data' = user_data
            /\ conv_state' = conv_state
            /\ pc' = "idle"]_vars

\* The fallback was reported for a session that stores no model.
C16_Witness ==
    /\ handler = "info_command_handler"
    /\ update = Command("info")
    /\ "model" \notin DOMAIN user_data
    /\ reply = Notice("Conversation Info: Model", <<"llama3-8b-8192">>)

\* C17 as the specification words it: what generate_response emits inside its
\* loop, when the buffer is over the threshold, is the whole text received since
\* the start of the stream.
C17_EmittedValueIsFullText ==
    [][(pc = "running" /\ pc' = "yielded" /\ gen_at' = "loop") =>
            /\ Len(response_queue') > 100
            /\ Last(yields') = Concat(fragments')]_vars

\* C17: inside its loop generate_response yields exactly when the buffer has
\* become longer than 100 characters (a buffer of 100 yields nothing); the value
\* yielded is the buffer alone, which message_handler adds to the text
\* accumulated since the start of the stream and delivers whole; the buffer is
\* empty when the generator goes on to the next fragment.
C17_EmittedValueIsBuffer ==
    [][/\ (pc = "running" /\ fragments' # fragments) =>
            ((pc' = "yielded" /\ gen_at' = "loop") <=> Len(response_queue') > 100)
       /\ (pc = "running" /\ pc' = "yielded" /\ gen_at' = "loop") =>
            yields' = Append(yields, response_queue')
       /\ (pc = "yielded" /\ gen_at = "loop") =>
            /\ pc' = "delivering"
            /\ snapshots' = Append(snapshots, Concat(fragments))
       /\ (pc = "resuming" /\ gen_at = "loop") =>
            /\ pc' = "running"
            /\ response_queue' = <<>>
       /\ pc' = "running" => Len(response_queue') <= 100]_vars

\* A second value was yielded inside the loop: it is shorter than the text
\* received so far.
C17_Witness ==
    /\ pc = "yielded"
    /\ gen_at = "loop"
    /\ Len(yields) = 2
    /\ Len(Last(yields)) > 100
    /\ Last(yields) # Concat(fragments)

\* C18: within one run of message_handler the deliveries are strictly ordered
\* and all edit the one placeholder: a delivery starts only when none is in
\* flight, nothing is consumed, yielded or delivered while one is in flight, no
\* other message is sent while the handler runs, each delivered text strictly
\* extends the one before, and when the stream has completed the last delivered
\* text is the full text (nothing is delivered exactly when the full text is
\* empty).
C18_DeliveriesOrdered ==
    [][/\ snapshots' # snapshots /\ snapshots' # <<>> =>
            /\ pc = "yielded"
            /\ pc' = "delivering"
            /\ Len(snapshots') = Len(snapshots) + 1
            /\ SubSeq(snapshots', 1, Len(snapshots)) = snapshots
            /\ snapshots # <<>> =>
                  /\ IsPrefix(Last(snapshots), Last(snapshots'))
                  /\ Len(Last(snapshots)) < Len(Last(snapshots'))
       /\ pc = "delivering" =>
            /\ pc' = "resuming"
            /\ fragments' = fragments
            /\ yields' = yields
            /\ snapshots' = snapshots
       /\ pc \in {"running", "yielded", "delivering", "resuming"} =>
            /\ reply = Notice("Generating response...", <<>>)
            /\ pc' # "idle" => reply' = reply
       /\ pc' = "done" =>
            /\ snapshots' = <<>> <=> Concat(fragments') = <<>>
            /\ snapshots' # <<>> => Last(snapshots') = Concat(fragments')]_vars

\* The second delivery of a run is in flight.
C18_Witness ==
    /\ pc = "delivering"
    /\ Len(snapshots) = 2
    /\ IsPrefix(snapshots[1], snapshots[2])
    /\ snapshots[2] = Concat(fragments)

\* C19: the completion is asked with the history as it is once the user turn
\* has been appended (the seeded system entry first, the new user turn last,
\* the earlier turns in order) and with the model of the session, or
\* llama3-8b-8192 when none is stored; the user turn is in the history before
\* the call starts and stays there while it runs.
C19_RequestIsHistoryWithUserTurn ==
    [][/\ (pc = "idle" /\ pc' = "running") =>
            /\ update'.kind = "text"
            /\ history' = history \o <<Turn("user", update'.data)>>
            /\ requests' = <<[messages |-> history',
                              model |-> IF "model" \in DOMAIN user_data
                                          THEN user_data["model"]
                                          ELSE <<"llama3-8b-8192">>]>>
            /\ "system_prompt" \in DOMAIN user_data =>
                  history'[1] = Turn("system", user_data["system_prompt"])
       /\ pc' \in {"running", "yielded", "delivering", "resuming", "raised"} =>
            /\ Len(requests') = 1
            /\ requests'[1].messages = history']_vars

\* A completion was asked under a model chosen by button, after a seeded
\* system entry.
C19_Witness ==
    /\ pc = "running"
    /\ fragments = <<>>
    /\ requests[1].model = <<"gemma-7b-it">>
    /\ Len(requests[1].messages) = 2
    /\ requests[1].messages[1].role = "system"
    /\ requests[1].messages[2] = Turn("user", HiText)

\* C20: but for a new chat and the end of the system-prompt dialog by a text,
\* every step leaves the history it found as a prefix of the history it leaves,
\* and the system prompt unchanged; a model selection, the info command, the
\* entry into the dialog and its cancellation leave the history and the system
\* prompt exactly as they were.
C20_HistoryAppendOnly ==
    [][LET Prompt(d) == IF "system_prompt" \in DOMAIN d THEN <<d["system_prompt"]>> ELSE <<>>
           reset == pc = "idle" /\ handler' \in {"new_command_handler", "get_system_prompt"}
           reads == pc = "idle" /\ handler' \in {"change_model_callback_handler",
                                                  "info_command_handler",
                                                  "start_system_prompt",
                                                  "cancelled_system_prompt"}
       IN  /\ ~reset => (IsPrefix(history, history') /\ Prompt(user_data') = Prompt(user_data))
           /\ reads => (history' = history /\ Prompt(user_data') = Prompt(user_data))]_vars

\* A reply was appended after the user turn and the seeded entry, in a session
\* whose model was chosen by button.
C20_Witness ==
    /\ pc = "idle"
    /\ handler = "message_handler"
    /\ Len(history) = 3
    /\ history[2].role = "user"
    /\ user_data["model"] = <<"mixtral-8x7b-32768">>

====
